---- MODULE Spec2Model ----
(***************************************************************************)
(* Model of src/index.mjs: the flattenObject helper, the json2csv Transform *)
(* stage (transform / flush) and the async main that pipes the HTTP         *)
(* response through json2csv into the output file.                          *)
(*                                                                          *)
(* Text is modelled as it is in the program: the upstream delivers Buffers  *)
(* (sequences of bytes), chunk.toString() decodes each Buffer as UTF-8 on   *)
(* its own, jsonBuffer and every pushed chunk are sequences of characters.  *)
(* A byte or a character is a one-element name: an ASCII byte and the       *)
(* character it encodes share the name ("a", "{", ...); "xC3" and "xA9" are *)
(* the two bytes of U+00E9, "U+E9" is that character and "U+FFFD" is the    *)
(* replacement character the decoder writes for a malformed sequence.       *)
(*                                                                          *)
(* JSON values are tagged records: [num |-> n], [str |-> chars],            *)
(* [bool |-> b], [null |-> TRUE], [arr |-> <<values>>],                     *)
(* [obj |-> <<[k |-> chars, v |-> value], ...>>] (own properties in         *)
(* enumeration order) and [undef |-> TRUE] for JavaScript's undefined.      *)
(*                                                                          *)
(* Input domain: JSON texts of objects, arrays, strings without escapes,    *)
(* unsigned integers, true, false, null and spaces; object keys that are    *)
(* neither integer-like (those enumerate first in JavaScript) nor names of  *)
(* members of Object.prototype (__proto__, constructor, ...), for which     *)
(* res[propName] = v and row[header] do not act on own properties.          *)
(***************************************************************************)
EXTENDS Integers, Sequences, FiniteSets, TLC

(***************************************************************************)
(* JavaScript values                                                        *)
(***************************************************************************)
Undefined == [undef |-> TRUE]
Null == [null |-> TRUE]
Num(n) == [num |-> n]
Str(s) == [str |-> s]
Bool(b) == [bool |-> b]
Arr(a) == [arr |-> a]
Obj(p) == [obj |-> p]

IsUndefined(v) == DOMAIN v = {"undef"}
IsNull(v) == DOMAIN v = {"null"}
IsNum(v) == DOMAIN v = {"num"}
IsStr(v) == DOMAIN v = {"str"}
IsBool(v) == DOMAIN v = {"bool"}
IsArray(v) == DOMAIN v = {"arr"}
\* typeof v === "object" && v !== null && !Array.isArray(v)
IsPlainObject(v) == DOMAIN v = {"obj"}

Digits == <<"0", "1", "2", "3", "4", "5", "6", "7", "8", "9">>
IsDigit(c) == \E d \in 1..10 : Digits[d] = c
DigitValue(c) == (CHOOSE d \in 1..10 : Digits[d] = c) - 1

RECURSIVE NumToChars(_)
\* String(n) for a non-negative integer
NumToChars(n) ==
    IF n < 10 THEN <<Digits[n + 1]>>
    ELSE NumToChars(n \div 10) \o <<Digits[(n % 10) + 1]>>

RECURSIVE CharsToNum(_, _)
CharsToNum(s, acc) ==
    IF s = <<>> THEN acc
    ELSE CharsToNum(Tail(s), acc * 10 + DigitValue(Head(s)))

\* obj.hasOwnProperty(k) for a property list
HasKey(props, k) == \E n \in 1..Len(props) : props[n].k = k
KeyIndex(props, k) == CHOOSE n \in 1..Len(props) : props[n].k = k
\* props[k]: the value, or undefined
Lookup(props, k) ==
    IF HasKey(props, k) THEN props[KeyIndex(props, k)].v ELSE Undefined
\* props[k] = v: an existing property keeps its place, a new one goes last
SetProp(props, k, v) ==
    IF HasKey(props, k)
    THEN [props EXCEPT ![KeyIndex(props, k)] = [k |-> k, v |-> v]]
    ELSE Append(props, [k |-> k, v |-> v])
\* Object.keys
Keys(props) == [n \in 1..Len(props) |-> props[n].k]

(***************************************************************************)
(* chunk.toString(): UTF-8 decoding of one Buffer                           *)
(***************************************************************************)
IsLeadByte(b) == b = "xC3"
IsContinuationByte(b) == b = "xA9"
DecodePair(lead, cont) == "U+E9"
ReplacementChar == "U+FFFD"

\* the character the decoder writes on reaching bytes[n]: the character of a
\* lead byte and its continuation byte, U+FFFD for a lead byte with no
\* continuation byte after it in this Buffer and for a continuation byte with
\* no lead byte before it in this Buffer, the byte itself for ASCII; "" for a
\* continuation byte already taken by its lead byte
DecodedAt(bytes, n) ==
    IF IsLeadByte(bytes[n])
    THEN IF n < Len(bytes) /\ IsContinuationByte(bytes[n + 1])
         THEN DecodePair(bytes[n], bytes[n + 1])
         ELSE ReplacementChar
    ELSE IF IsContinuationByte(bytes[n])
    THEN IF n > 1 /\ IsLeadByte(bytes[n - 1]) THEN "" ELSE ReplacementChar
    ELSE bytes[n]

NotTaken(c) == c # ""
ToStringUtf8(bytes) ==
    SelectSeq([n \in 1..Len(bytes) |-> DecodedAt(bytes, n)], NotTaken)

(***************************************************************************)
(* JSON.parse, for texts of objects, arrays, strings without escapes,       *)
(* unsigned integers, true, false, null and spaces                          *)
(***************************************************************************)
ParseFail == [ok |-> FALSE, v |-> Undefined, i |-> 0]
ParseOk(v, i) == [ok |-> TRUE, v |-> v, i |-> i]

At(s, i) == IF i <= Len(s) THEN s[i] ELSE "EOF"

RECURSIVE SkipWs(_, _)
SkipWs(s, i) == IF At(s, i) = " " THEN SkipWs(s, i + 1) ELSE i

Matches(s, i, word) ==
    /\ i + Len(word) - 1 <= Len(s)
    /\ SubSeq(s, i, i + Len(word) - 1) = word

RECURSIVE StringEnd(_, _)
\* index of the closing quote of the string whose first character is s[i], 0 if none
StringEnd(s, i) ==
    IF i > Len(s) THEN 0
    ELSE IF s[i] = "\"" THEN i
    ELSE IF s[i] = "\\" THEN 0
    ELSE StringEnd(s, i + 1)

RECURSIVE NumberEnd(_, _)
\* index after the last digit of the digits starting at s[i]
NumberEnd(s, i) == IF IsDigit(At(s, i)) THEN NumberEnd(s, i + 1) ELSE i

ParseString(s, i) ==
    LET e == StringEnd(s, i + 1)
    IN  IF e = 0 THEN ParseFail ELSE ParseOk(Str(SubSeq(s, i + 1, e - 1)), e + 1)

ParseNumber(s, i) ==
    LET e == NumberEnd(s, i)
    IN  IF s[i] = "0" /\ e > i + 1 THEN ParseFail
        ELSE ParseOk(Num(CharsToNum(SubSeq(s, i, e - 1), 0)), e)

RECURSIVE ParseValue(_, _)
RECURSIVE ParseElements(_, _, _)
RECURSIVE ParseMembers(_, _, _)

\* after "[" or ",": a value, then "," or "]"
ParseElements(s, i, acc) ==
    LET r == ParseValue(s, i)
        j == SkipWs(s, r.i)
    IN  IF ~r.ok THEN ParseFail
        ELSE IF At(s, j) = "," THEN ParseElements(s, j + 1, Append(acc, r.v))
        ELSE IF At(s, j) = "]" THEN ParseOk(Arr(Append(acc, r.v)), j + 1)
        ELSE ParseFail

\* after "{" or ",": "key" : value, then "," or "}"; a repeated key keeps its
\* first place and takes the last value
ParseMembers(s, i, acc) ==
    LET k == SkipWs(s, i)
        key == IF At(s, k) = "\"" THEN ParseString(s, k) ELSE ParseFail
        c == IF key.ok THEN SkipWs(s, key.i) ELSE 0
        r == IF key.ok /\ At(s, c) = ":" THEN ParseValue(s, c + 1) ELSE ParseFail
        j == SkipWs(s, r.i)
    IN  IF ~r.ok THEN ParseFail
        ELSE IF At(s, j) = ","
        THEN ParseMembers(s, j + 1, SetProp(acc, key.v.str, r.v))
        ELSE IF At(s, j) = "}"
        THEN ParseOk(Obj(SetProp(acc, key.v.str, r.v)), j + 1)
        ELSE ParseFail

ParseValue(s, i) ==
    LET j == SkipWs(s, i)
        c == At(s, j)
    IN  IF c = "{"
        THEN IF At(s, SkipWs(s, j + 1)) = "}"
             THEN ParseOk(Obj(<<>>), SkipWs(s, j + 1) + 1)
             ELSE ParseMembers(s, j + 1, <<>>)
        ELSE IF c = "["
        THEN IF At(s, SkipWs(s, j + 1)) = "]"
             THEN ParseOk(Arr(<<>>), SkipWs(s, j + 1) + 1)
             ELSE ParseElements(s, j + 1, <<>>)
        ELSE IF c = "\"" THEN ParseString(s, j)
        ELSE IF IsDigit(c) THEN ParseNumber(s, j)
        ELSE IF Matches(s, j, <<"t", "r", "u", "e">>) THEN ParseOk(Bool(TRUE), j + 4)
        ELSE IF Matches(s, j, <<"f", "a", "l", "s", "e">>) THEN ParseOk(Bool(FALSE), j + 5)
        ELSE IF Matches(s, j, <<"n", "u", "l", "l">>) THEN ParseOk(Null, j + 4)
        ELSE ParseFail

\* JSON.parse(text): [ok |-> TRUE, v |-> value], or ok = FALSE for a SyntaxError
JsonParse(text) ==
    LET r == ParseValue(text, 1)
    IN  IF r.ok /\ SkipWs(text, r.i) = Len(text) + 1 THEN r ELSE ParseFail

(***************************************************************************)
(* flattenObject                                                            *)
(***************************************************************************)
\* the (key, obj[key]) pairs `for (let key in obj)` visits, in order: the own
\* properties of an object, the indices of an array or of a string, nothing
\* for a number, a boolean, null or undefined
ForIn(obj) ==
    IF IsPlainObject(obj) THEN obj.obj
    ELSE IF IsArray(obj)
    THEN [n \in 1..Len(obj.arr) |-> [k |-> NumToChars(n - 1), v |-> obj.arr[n]]]
    ELSE IF IsStr(obj)
    THEN [n \in 1..Len(obj.str) |-> [k |-> NumToChars(n - 1), v |-> Str(<<obj.str[n]>>)]]
    ELSE <<>>

\* PropName without the test of parent
PropNameAlwaysDotted(parent, key) == parent \o <<".">> \o key

\* const propName = parent ? parent + "." + key : key
PropName(parent, key) ==
    IF parent # <<>> THEN parent \o <<".">> \o key ELSE key

RECURSIVE flattenObject(_, _, _)
RECURSIVE FlattenLoop(_, _, _)

\* the body of the for-in loop, over the pairs still to visit
FlattenLoop(pairs, parent, res) ==
    IF pairs = <<>> THEN res
    ELSE LET key == Head(pairs).k
             val == Head(pairs).v
             propName == PropName(parent, key)
         IN  FlattenLoop(Tail(pairs), parent,
                 IF IsPlainObject(val)
                 THEN flattenObject(val, propName, res)
                 ELSE SetProp(res, propName, val))

flattenObject(obj, parent, res) == FlattenLoop(ForIn(obj), parent, res)

(***************************************************************************)
(* Conversions used by flush                                                *)
(***************************************************************************)
RECURSIVE JoinChars(_, _)
\* strings.join(sep) on a sequence of character sequences
JoinChars(strs, sep) ==
    IF strs = <<>> THEN <<>>
    ELSE IF Len(strs) = 1 THEN strs[1]
    ELSE strs[1] \o sep \o JoinChars(Tail(strs), sep)

RECURSIVE ToStr(_)
\* String(v); Array.prototype.join writes "" for a null or undefined element
JoinElement(v) == IF IsNull(v) \/ IsUndefined(v) THEN <<>> ELSE ToStr(v)
ToStr(v) ==
    IF IsStr(v) THEN v.str
    ELSE IF IsNum(v) THEN NumToChars(v.num)
    ELSE IF IsBool(v)
    THEN IF v.bool THEN <<"t", "r", "u", "e">> ELSE <<"f", "a", "l", "s", "e">>
    ELSE IF IsNull(v) THEN <<"n", "u", "l", "l">>
    ELSE IF IsUndefined(v) THEN <<"u", "n", "d", "e", "f", "i", "n", "e", "d">>
    ELSE IF IsArray(v)
    THEN JoinChars([n \in 1..Len(v.arr) |-> JoinElement(v.arr[n])], <<",">>)
    ELSE <<"[", "o", "b", "j", "e", "c", "t", " ", "O", "b", "j", "e", "c", "t", "]">>

\* values.join(",")
Join(values) == JoinChars([n \in 1..Len(values) |-> JoinElement(values[n])], <<",">>)

\* !v
Falsy(v) ==
    \/ IsUndefined(v)
    \/ IsNull(v)
    \/ IsBool(v) /\ ~v.bool
    \/ IsNum(v) /\ v.num = 0
    \/ IsStr(v) /\ v.str = <<>>

\* row[header] || ""
CellValue(row, header) ==
    IF Falsy(Lookup(row, header)) THEN Str(<<>>) ELSE Lookup(row, header)

\* headers.includes(key)
Includes(headers, key) == \E n \in 1..Len(headers) : headers[n] = key

RECURSIVE AddHeadersUnchecked(_, _)
\* AddHeaders without the headers.includes(key) test
AddHeadersUnchecked(headers, keys) ==
    IF keys = <<>> THEN headers
    ELSE AddHeadersUnchecked(Append(headers, Head(keys)), Tail(keys))

RECURSIVE AddHeaders(_, _)
\* Object.keys(flatResult).forEach(key => headers.includes(key) || headers.push(key))
AddHeaders(headers, keys) ==
    IF keys = <<>> THEN headers
    ELSE AddHeaders(IF Includes(headers, Head(keys)) THEN headers
                    ELSE Append(headers, Head(keys)),
                    Tail(keys))

\* json.results: a TypeError on null, the member of an object, undefined otherwise
ResultsThrows(json) == IsNull(json) \/ IsUndefined(json)
ResultsOf(json) == IF IsPlainObject(json) THEN Lookup(json.obj, <<"r", "e", "s", "u", "l", "t", "s">>) ELSE Undefined

\* results.length: a TypeError on undefined and null
LengthThrows(results) == IsNull(results) \/ IsUndefined(results)
LengthOf(results) ==
    IF IsArray(results) THEN Num(Len(results.arr))
    ELSE IF IsStr(results) THEN Num(Len(results.str))
    ELSE IF IsPlainObject(results) THEN Lookup(results.obj, <<"l", "e", "n", "g", "t", "h">>)
    ELSE Undefined

\* the text is the decimal writing of a number above zero
PositiveDigits(s) ==
    /\ s # <<>>
    /\ \A n \in 1..Len(s) : IsDigit(s[n])
    /\ \E n \in 1..Len(s) : s[n] # "0"

\* x >= 0 in place of x > 0
GreaterOrEqualZero(x) ==
    \/ IsNum(x) /\ x.num >= 0
    \/ IsBool(x)
    \/ IsNull(x)
    \/ IsStr(x) /\ (\A n \in 1..Len(x.str) : IsDigit(x.str[n]))

\* x > 0 for the values a length can be here: a number, or what converts to
\* one (true to 1, a string or an array by its text)
GreaterThanZero(x) ==
    \/ IsNum(x) /\ x.num > 0
    \/ IsBool(x) /\ x.bool
    \/ IsStr(x) /\ PositiveDigits(x.str)
    \/ IsArray(x) /\ PositiveDigits(ToStr(x))

(***************************************************************************)
(* The documents the upstream delivers, as bytes                            *)
(***************************************************************************)
\* {"a":1}
RecA == <<"{", "\"", "a", "\"", ":", "1", "}">>
\* {"b":2}
RecB == <<"{", "\"", "b", "\"", ":", "2", "}">>
\* {"a":{"b":1,"c":{"d":2}}}
RecNested == <<"{", "\"", "a", "\"", ":", "{", "\"", "b", "\"", ":", "1", ",", "\"", "c", "\"", ":", "{", "\"", "d", "\"", ":", "2", "}", "}", "}">>
\* {"a":[1,2,3]}
RecArray == <<"{", "\"", "a", "\"", ":", "[", "1", ",", "2", ",", "3", "]", "}">>
\* {"a":0,"b":false}
RecFalsy == <<"{", "\"", "a", "\"", ":", "0", ",", "\"", "b", "\"", ":", "f", "a", "l", "s", "e", "}">>
\* {"a":"","b":"x"}
RecEmptyStr == <<"{", "\"", "a", "\"", ":", "\"", "\"", ",", "\"", "b", "\"", ":", "\"", "x", "\"", "}">>
\* {"a":"\u00e9"}
RecAccent == <<"{", "\"", "a", "\"", ":", "\"", "xC3", "xA9", "\"", "}">>
\* {"a.b":1,"a":{"b":2}}
RecDotted == <<"{", "\"", "a", ".", "b", "\"", ":", "1", ",", "\"", "a", "\"", ":", "{", "\"", "b", "\"", ":", "2", "}", "}">>
\* {"":{"a":1},"a":null}
RecEmptyKey == <<"{", "\"", "\"", ":", "{", "\"", "a", "\"", ":", "1", "}", ",", "\"", "a", "\"", ":", "n", "u", "l", "l", "}">>
\* null
RecNull == <<"n", "u", "l", "l">>
RecordTexts == {RecA, RecB, RecNested, RecArray, RecFalsy, RecEmptyStr, RecAccent, RecDotted, RecEmptyKey, RecNull}

\* {"results":[  and  ]}
ResultsOpen == <<"{", "\"", "r", "e", "s", "u", "l", "t", "s", "\"", ":", "[">>
ResultsClose == <<"]", "}">>

\* {}
DocNoResults == <<"{", "}">>
\* {"a":1}
DocOtherMember == <<"{", "\"", "a", "\"", ":", "1", "}">>
\* {"results":null}
DocResultsNull == <<"{", "\"", "r", "e", "s", "u", "l", "t", "s", "\"", ":", "n", "u", "l", "l", "}">>
\* {"results":5}
DocResultsNumber == <<"{", "\"", "r", "e", "s", "u", "l", "t", "s", "\"", ":", "5", "}">>
\* {"results":true}
DocResultsTrue == <<"{", "\"", "r", "e", "s", "u", "l", "t", "s", "\"", ":", "t", "r", "u", "e", "}">>
\* {"results":"ab"}
DocResultsString == <<"{", "\"", "r", "e", "s", "u", "l", "t", "s", "\"", ":", "\"", "a", "b", "\"", "}">>
\* {"results":""}
DocResultsEmptyString == <<"{", "\"", "r", "e", "s", "u", "l", "t", "s", "\"", ":", "\"", "\"", "}">>
\* {"results":{"a":1}}
DocResultsObject == <<"{", "\"", "r", "e", "s", "u", "l", "t", "s", "\"", ":", "{", "\"", "a", "\"", ":", "1", "}", "}">>
\* {"results":{"length":1}}
DocResultsLengthObject == <<"{", "\"", "r", "e", "s", "u", "l", "t", "s", "\"", ":", "{", "\"", "l", "e", "n", "g", "t", "h", "\"", ":", "1", "}", "}">>
\* null
DocNull == <<"n", "u", "l", "l">>
\* 5
DocNumber == <<"5">>
\* [{"a":1}]
DocArray == <<"[", "{", "\"", "a", "\"", ":", "1", "}", "]">>
NoListTexts == {DocNoResults, DocOtherMember, DocResultsNull, DocResultsNumber, DocResultsTrue, DocResultsString, DocResultsEmptyString, DocResultsObject, DocResultsLengthObject, DocNull, DocNumber, DocArray}

\* {"results":[{"a":1},]}
BadTrailingComma == <<"{", "\"", "r", "e", "s", "u", "l", "t", "s", "\"", ":", "[", "{", "\"", "a", "\"", ":", "1", "}", ",", "]", "}">>
\* {"results":[{"a":\u00e9}]}
BadBareAccent == <<"{", "\"", "r", "e", "s", "u", "l", "t", "s", "\"", ":", "[", "{", "\"", "a", "\"", ":", "xC3", "xA9", "}", "]", "}">>
\* {"results":[]}x
BadTrailingText == <<"{", "\"", "r", "e", "s", "u", "l", "t", "s", "\"", ":", "[", "]", "}", "x">>
\* {"results":[{"a":01}]}
BadLeadingZero == <<"{", "\"", "r", "e", "s", "u", "l", "t", "s", "\"", ":", "[", "{", "\"", "a", "\"", ":", "0", "1", "}", "]", "}">>
\* {results:[]}
BadUnquotedKey == <<"{", "r", "e", "s", "u", "l", "t", "s", ":", "[", "]", "}">>
\* a document cut short
Whole == <<"{", "\"", "r", "e", "s", "u", "l", "t", "s", "\"", ":", "[", "{", "\"", "a", "\"", ":", "\"", "x", "\"", "}", "]", "}">>
Truncations == {SubSeq(Whole, 1, n) : n \in 0..(Len(Whole) - 1)}
MalformedTexts == {BadTrailingComma, BadBareAccent, BadTrailingText, BadLeadingZero, BadUnquotedKey} \cup Truncations

MaxRecords == 2

\* {"results":[r1,...,rn]} for every list of at most MaxRecords record texts
RecordLists == UNION {[1..n -> RecordTexts] : n \in 0..MaxRecords}
ListDocument(recs) == ResultsOpen \o JoinChars(recs, <<",">>) \o ResultsClose
ListDocuments == {ListDocument(recs) : recs \in RecordLists}
Documents == ListDocuments \cup NoListTexts \cup MalformedTexts

(***************************************************************************)
(* State                                                                    *)
(***************************************************************************)
\* two json2csv() instances; every run constructs its own
Stages == {1, 2}

VARIABLES
    document,    \* the bytes of the response body
    sent,        \* per stage: how many bytes the upstream has delivered
    phase,       \* per stage: where the Transform is (see Phases)
    jsonBuffer,  \* per stage: the closure variable jsonBuffer
    results,     \* per stage: flush's results
    headers,     \* per stage: flush's headers
    rows,        \* per stage: flush's rows
    cells,       \* per stage: the rowValues of the rows pushed so far
    pushed,      \* per stage: the chunks this.push has emitted
    error,       \* per stage: what callback(err) was given, "none" if nothing
    parses       \* per stage: how many times JSON.parse has been called

stageVars == <<document, sent, phase, jsonBuffer, results, headers, rows, cells,
               pushed, error, parses>>

\* "accumulating": transform calls; "forEach", "pushHeader", "rowsLoop",
\* "callback": positions inside flush's try block; "done": callback() called;
\* "errored": callback(err) called; "destroyed": torn down by the pipeline
Phases == {"accumulating", "forEach", "pushHeader", "rowsLoop", "callback",
           "done", "errored", "destroyed"}
InFlush(i) == phase[i] \in {"forEach", "pushHeader", "rowsLoop", "callback"}
\* JavaScript runs a handler to completion: nothing else runs while a flush does
MayRun(i) == \A j \in Stages \ {i} : ~InFlush(j)

InitStages(docs) ==
    /\ document \in docs
    /\ sent = [i \in Stages |-> 0]
    /\ phase = [i \in Stages |-> "accumulating"]
    /\ jsonBuffer = [i \in Stages |-> <<>>]
    /\ results = [i \in Stages |-> Undefined]
    /\ headers = [i \in Stages |-> <<>>]
    /\ rows = [i \in Stages |-> <<>>]
    /\ cells = [i \in Stages |-> <<>>]
    /\ pushed = [i \in Stages |-> <<>>]
    /\ error = [i \in Stages |-> "none"]
    /\ parses = [i \in Stages |-> 0]

(***************************************************************************)
(* json2csv: transform and flush                                            *)
(***************************************************************************)
\* Transform with jsonBuffer declared outside json2csv: one buffer for every
\* stage
TransformSharedBuffer(i) ==
    /\ phase[i] = "accumulating"
    /\ MayRun(i)
    /\ \E n \in 1..(Len(document) - sent[i]) :
         LET chunk == SubSeq(document, sent[i] + 1, sent[i] + n)
         IN  /\ jsonBuffer' = [j \in Stages |-> jsonBuffer[j] \o ToStringUtf8(chunk)]
             /\ sent' = [sent EXCEPT ![i] = @ + n]
    /\ UNCHANGED <<document, phase, results, headers, rows, cells, pushed, error, parses>>

\* Transform with a JSON.parse of the buffer tried on every chunk
TransformParsing(i) ==
    /\ phase[i] = "accumulating"
    /\ MayRun(i)
    /\ \E n \in 1..(Len(document) - sent[i]) :
         LET chunk == SubSeq(document, sent[i] + 1, sent[i] + n)
         IN  /\ jsonBuffer' = [jsonBuffer EXCEPT ![i] = @ \o ToStringUtf8(chunk)]
             /\ sent' = [sent EXCEPT ![i] = @ + n]
    /\ parses' = [parses EXCEPT ![i] = @ + 1]
    /\ UNCHANGED <<document, phase, results, headers, rows, cells, pushed, error>>

\* transform(chunk, _, callback): the upstream hands over the next n bytes
Transform(i) ==
    /\ phase[i] = "accumulating"
    /\ MayRun(i)
    /\ \E n \in 1..(Len(document) - sent[i]) :
         LET chunk == SubSeq(document, sent[i] + 1, sent[i] + n)
         IN  /\ jsonBuffer' = [jsonBuffer EXCEPT ![i] = @ \o ToStringUtf8(chunk)]
             /\ sent' = [sent EXCEPT ![i] = @ + n]
    /\ UNCHANGED <<document, phase, results, headers, rows, cells, pushed, error, parses>>

\* callback(err) from the catch block
Throw(i, name) ==
    /\ phase' = [phase EXCEPT ![i] = "errored"]
    /\ error' = [error EXCEPT ![i] = name]

\* FlushParse with a catch block that calls callback() without the error
FlushParseSwallow(i) ==
    /\ phase[i] = "accumulating"
    /\ sent[i] = Len(document)
    /\ MayRun(i)
    /\ LET parsed == JsonParse(jsonBuffer[i])
           json == parsed.v
       IN  IF ~parsed.ok \/ ResultsThrows(json) \/ LengthThrows(ResultsOf(json))
           THEN phase' = [phase EXCEPT ![i] = "done"] /\ UNCHANGED <<results, error>>
           ELSE /\ results' = [results EXCEPT ![i] = ResultsOf(json)]
                /\ phase' = [phase EXCEPT ![i] =
                       IF GreaterThanZero(LengthOf(ResultsOf(json)))
                       THEN "forEach" ELSE "callback"]
                /\ UNCHANGED error
    /\ parses' = [parses EXCEPT ![i] = @ + 1]
    /\ UNCHANGED <<document, sent, jsonBuffer, headers, rows, cells, pushed>>

\* FlushParse without the test of results.length
FlushParseNoLengthTest(i) ==
    /\ phase[i] = "accumulating"
    /\ sent[i] = Len(document)
    /\ MayRun(i)
    /\ LET parsed == JsonParse(jsonBuffer[i])
           json == parsed.v
       IN  IF ~parsed.ok
           THEN Throw(i, "SyntaxError") /\ UNCHANGED results
           ELSE IF ResultsThrows(json)
           THEN Throw(i, "TypeError") /\ UNCHANGED results
           ELSE /\ results' = [results EXCEPT ![i] = ResultsOf(json)]
                /\ phase' = [phase EXCEPT ![i] = "forEach"]
                /\ UNCHANGED error
    /\ parses' = [parses EXCEPT ![i] = @ + 1]
    /\ UNCHANGED <<document, sent, jsonBuffer, headers, rows, cells, pushed>>

\* flush, up to the test of results.length: called once the upstream has ended
FlushParse(i) ==
    /\ phase[i] = "accumulating"
    /\ sent[i] = Len(document)
    /\ MayRun(i)
    /\ LET parsed == JsonParse(jsonBuffer[i])
           json == parsed.v
       IN  IF ~parsed.ok
           THEN Throw(i, "SyntaxError") /\ UNCHANGED results
           ELSE IF ResultsThrows(json) \/ LengthThrows(ResultsOf(json))
           THEN Throw(i, "TypeError") /\ UNCHANGED results
           ELSE /\ results' = [results EXCEPT ![i] = ResultsOf(json)]
                /\ phase' = [phase EXCEPT ![i] =
                       IF GreaterThanZero(LengthOf(ResultsOf(json)))
                       THEN "forEach" ELSE "callback"]
                /\ UNCHANGED error
    /\ parses' = [parses EXCEPT ![i] = @ + 1]
    /\ UNCHANGED <<document, sent, jsonBuffer, headers, rows, cells, pushed>>

\* results.forEach(...): one record per step, then on to the header
FlushForEach(i) ==
    /\ phase[i] = "forEach"
    /\ IF ~IsArray(results[i])
       THEN Throw(i, "TypeError") /\ UNCHANGED <<headers, rows>>
       ELSE IF Len(rows[i]) < Len(results[i].arr)
       THEN LET result == results[i].arr[Len(rows[i]) + 1]
                flatResult == flattenObject(result, <<>>, <<>>)
            IN  /\ rows' = [rows EXCEPT ![i] = Append(@, flatResult)]
                /\ headers' = [headers EXCEPT ![i] = AddHeaders(@, Keys(flatResult))]
                /\ UNCHANGED <<phase, error>>
       ELSE /\ phase' = [phase EXCEPT ![i] = "pushHeader"]
            /\ UNCHANGED <<headers, rows, error>>
    /\ UNCHANGED <<document, sent, jsonBuffer, results, cells, pushed, parses>>

\* this.push(headers.join(",") + "\n")
FlushPushHeader(i) ==
    /\ phase[i] = "pushHeader"
    /\ pushed' = [pushed EXCEPT ![i] = Append(@, JoinChars(headers[i], <<",">>) \o <<"\n">>)]
    /\ phase' = [phase EXCEPT ![i] = "rowsLoop"]
    /\ UNCHANGED <<document, sent, jsonBuffer, results, headers, rows, cells, error, parses>>

\* FlushPushRow taking the rows last to first
FlushPushRowReversed(i) ==
    /\ phase[i] = "rowsLoop"
    /\ IF Len(cells[i]) < Len(rows[i])
       THEN LET row == rows[i][Len(rows[i]) - Len(cells[i])]
                rowValues == [h \in 1..Len(headers[i]) |-> CellValue(row, headers[i][h])]
            IN  /\ pushed' = [pushed EXCEPT ![i] = Append(@, Join(rowValues) \o <<"\n">>)]
                /\ cells' = [cells EXCEPT ![i] = Append(@, rowValues)]
                /\ UNCHANGED phase
       ELSE /\ phase' = [phase EXCEPT ![i] = "callback"]
            /\ UNCHANGED <<pushed, cells>>
    /\ UNCHANGED <<document, sent, jsonBuffer, results, headers, rows, error, parses>>

\* FlushPushRow that throws on a row without a value for some header
FlushPushRowThrowing(i) ==
    /\ phase[i] = "rowsLoop"
    /\ IF Len(cells[i]) < Len(rows[i])
       THEN LET row == rows[i][Len(cells[i]) + 1]
                rowValues == [h \in 1..Len(headers[i]) |-> CellValue(row, headers[i][h])]
            IN  IF \E h \in 1..Len(headers[i]) : ~HasKey(row, headers[i][h])
                THEN Throw(i, "TypeError") /\ UNCHANGED <<pushed, cells>>
                ELSE /\ pushed' = [pushed EXCEPT ![i] = Append(@, Join(rowValues) \o <<"\n">>)]
                     /\ cells' = [cells EXCEPT ![i] = Append(@, rowValues)]
                     /\ UNCHANGED <<phase, error>>
       ELSE /\ phase' = [phase EXCEPT ![i] = "callback"]
            /\ UNCHANGED <<pushed, cells, error>>
    /\ UNCHANGED <<document, sent, jsonBuffer, results, headers, rows, parses>>

\* rows.forEach(...): one row per step, then on to callback()
FlushPushRow(i) ==
    /\ phase[i] = "rowsLoop"
    /\ IF Len(cells[i]) < Len(rows[i])
       THEN LET row == rows[i][Len(cells[i]) + 1]
                rowValues == [h \in 1..Len(headers[i]) |-> CellValue(row, headers[i][h])]
            IN  /\ pushed' = [pushed EXCEPT ![i] = Append(@, Join(rowValues) \o <<"\n">>)]
                /\ cells' = [cells EXCEPT ![i] = Append(@, rowValues)]
                /\ UNCHANGED phase
       ELSE /\ phase' = [phase EXCEPT ![i] = "callback"]
            /\ UNCHANGED <<pushed, cells>>
    /\ UNCHANGED <<document, sent, jsonBuffer, results, headers, rows, error, parses>>

\* callback()
FlushCallback(i) ==
    /\ phase[i] = "callback"
    /\ phase' = [phase EXCEPT ![i] = "done"]
    /\ UNCHANGED <<document, sent, jsonBuffer, results, headers, rows, cells, pushed, error, parses>>

(***************************************************************************)
(* main: the async function that runs the pipeline                          *)
(***************************************************************************)
VARIABLES
    pc,          \* where main is: "get", "piping", "resolved", "rejected", "end"
    srcState,    \* response.data: "none", "open", "ended", "errored", "destroyed"
    sinkState,   \* fileStream: "none", "open", "finished", "errored", "destroyed"
    written,     \* the chunks written to tmp/output.csv
    failed,      \* what failed first: "none", "request", "mkdir", "source",
                 \* "json2csv", "sink"
    rejection,   \* the error the try block threw, "none" if nothing
    dirCreated,  \* whether fs.mkdirSync has made sure tmp/ exists
    log          \* the console's lines

driverVars == <<pc, srcState, sinkState, written, failed, rejection, dirCreated, log>>

InitDriver ==
    /\ pc = "get"
    /\ srcState = "none"
    /\ sinkState = "none"
    /\ written = <<>>
    /\ failed = "none"
    /\ rejection = "none"
    /\ dirCreated = FALSE
    /\ log = <<>>

\* GetRejects in a main that calls fs.mkdirSync and fs.createWriteStream
\* before it awaits client.get
GetRejectsAfterOpen ==
    /\ pc = "get"
    /\ dirCreated' = TRUE
    /\ sinkState' = "open"
    /\ failed' = "request"
    /\ rejection' = "TransportError"
    /\ pc' = "rejected"
    /\ UNCHANGED <<srcState, written, log, stageVars>>

\* await client.get(...) rejects
GetRejects ==
    /\ pc = "get"
    /\ failed' = "request"
    /\ rejection' = "TransportError"
    /\ pc' = "rejected"
    /\ UNCHANGED <<srcState, sinkState, written, dirCreated, log, stageVars>>

\* client.get resolves, then fs.mkdirSync throws
MkdirThrows ==
    /\ pc = "get"
    /\ srcState' = "open"
    /\ failed' = "mkdir"
    /\ rejection' = "MkdirError"
    /\ pc' = "rejected"
    /\ UNCHANGED <<sinkState, written, dirCreated, log, stageVars>>

\* client.get resolves, mkdirSync and createWriteStream return, pipeline starts
GetResolves ==
    /\ pc = "get"
    /\ srcState' = "open"
    /\ dirCreated' = TRUE
    /\ sinkState' = "open"
    /\ pc' = "piping"
    /\ UNCHANGED <<written, failed, rejection, log, stageVars>>

\* pipeline: json2csv signalled an error: the sink is destroyed and the
\* promise rejects with that error
SettleFlush ==
    IF phase'[1] = "errored"
    THEN /\ sinkState' = "destroyed"
         /\ failed' = "json2csv"
         /\ rejection' = error'[1]
         /\ pc' = "rejected"
    ELSE UNCHANGED <<sinkState, failed, rejection, pc>>

\* pipeline: response.data hands a chunk to json2csv
PipeChunk ==
    /\ pc = "piping"
    /\ srcState = "open"
    /\ Transform(1)
    /\ UNCHANGED driverVars

\* pipeline: response.data ends and json2csv's flush starts
PipeFlushParse ==
    /\ pc = "piping"
    /\ srcState = "open"
    /\ FlushParse(1)
    /\ srcState' = "ended"
    /\ SettleFlush
    /\ UNCHANGED <<written, dirCreated, log>>

PipeFlushForEach ==
    /\ pc = "piping"
    /\ FlushForEach(1)
    /\ SettleFlush
    /\ UNCHANGED <<srcState, written, dirCreated, log>>

PipeFlushPushHeader ==
    /\ pc = "piping"
    /\ FlushPushHeader(1)
    /\ UNCHANGED driverVars

PipeFlushPushRow ==
    /\ pc = "piping"
    /\ FlushPushRow(1)
    /\ UNCHANGED driverVars

PipeFlushCallback ==
    /\ pc = "piping"
    /\ FlushCallback(1)
    /\ UNCHANGED driverVars

\* pipeline: the next pushed chunk is written to the file
SinkWrite ==
    /\ pc = "piping"
    /\ sinkState = "open"
    /\ ~InFlush(1)
    /\ Len(written) < Len(pushed[1])
    /\ written' = Append(written, pushed[1][Len(written) + 1])
    /\ UNCHANGED <<pc, srcState, sinkState, failed, rejection, dirCreated, log, stageVars>>

\* pipeline: json2csv has ended and everything is written: the file stream
\* finishes and the promise resolves
SinkFinish ==
    /\ pc = "piping"
    /\ sinkState = "open"
    /\ phase[1] = "done"
    /\ Len(written) = Len(pushed[1])
    /\ sinkState' = "finished"
    /\ pc' = "resolved"
    /\ UNCHANGED <<srcState, written, failed, rejection, dirCreated, log, stageVars>>

\* pipeline: response.data emits an error: the other streams are destroyed
\* and the promise rejects with that error
SourceFails ==
    /\ pc = "piping"
    /\ srcState = "open"
    /\ srcState' = "errored"
    /\ phase' = [phase EXCEPT ![1] = "destroyed"]
    /\ sinkState' = "destroyed"
    /\ failed' = "source"
    /\ rejection' = "TransportError"
    /\ pc' = "rejected"
    /\ UNCHANGED <<written, log, dirCreated, document, sent, jsonBuffer, results,
                   headers, rows, cells, pushed, error, parses>>

\* SinkFails for streams joined by pipe(): nothing destroys the other streams
SinkFailsNoTeardown ==
    /\ pc = "piping"
    /\ sinkState = "open"
    /\ ~InFlush(1)
    /\ sinkState' = "errored"
    /\ failed' = "sink"
    /\ rejection' = "SinkError"
    /\ pc' = "rejected"
    /\ UNCHANGED <<srcState, written, dirCreated, log, stageVars>>

\* pipeline: fileStream emits an error (open or write failed): the other
\* streams are destroyed and the promise rejects with that error
SinkFails ==
    /\ pc = "piping"
    /\ sinkState = "open"
    /\ ~InFlush(1)
    /\ sinkState' = "errored"
    /\ srcState' = IF srcState = "open" THEN "destroyed" ELSE srcState
    /\ phase' = [phase EXCEPT ![1] = IF @ = "done" THEN @ ELSE "destroyed"]
    /\ failed' = "sink"
    /\ rejection' = "SinkError"
    /\ pc' = "rejected"
    /\ UNCHANGED <<written, log, dirCreated, document, sent, jsonBuffer, results,
                   headers, rows, cells, pushed, error, parses>>

Line(msg, arg) == [msg |-> msg, arg |-> arg]

\* console.log("File has been written"); console.log(`time spent: ...`)
LogSuccess ==
    /\ pc = "resolved"
    /\ log' = log \o <<Line("File has been written", "none"), Line("time spent", "none")>>
    /\ pc' = "end"
    /\ UNCHANGED <<srcState, sinkState, written, failed, rejection, dirCreated, stageVars>>

\* catch (error) { console.error("Unexpected error:", error) }
LogError ==
    /\ pc = "rejected"
    /\ log' = Append(log, Line("Unexpected error:", rejection))
    /\ pc' = "end"
    /\ UNCHANGED <<srcState, sinkState, written, failed, rejection, dirCreated, stageVars>>

(***************************************************************************)
(* flattenObject on its own                                                 *)
(***************************************************************************)
MaxLeaves == 2

KeyA == <<"a">>
KeyB == <<"b">>
KeyDotted == <<"a", ".", "b">>
KeyEmpty == <<>>
\* where a leaf may sit: the keys from the record down to it
Paths == {<<KeyA>>, <<KeyB>>, <<KeyDotted>>, <<KeyEmpty>>,
          <<KeyA, KeyB>>, <<KeyA, KeyA>>, <<KeyA, KeyEmpty>>, <<KeyB, KeyDotted>>,
          <<KeyEmpty, KeyA>>, <<KeyEmpty, KeyB>>,
          <<KeyA, KeyB, KeyA>>, <<KeyB, KeyA, KeyB>>}
Leaves == {Num(1), Null, Arr(<<Num(1), Num(2), Num(3)>>), Obj(<<>>)}

RECURSIVE SetPath(_, _, _)
\* the record with `leaf` put at `path`, objects made on the way as needed
SetPath(props, path, leaf) ==
    IF Len(path) = 1 THEN SetProp(props, path[1], leaf)
    ELSE LET below == Lookup(props, path[1])
         IN  SetProp(props, path[1],
                     Obj(SetPath(IF IsPlainObject(below) THEN below.obj ELSE <<>>,
                                 Tail(path), leaf)))

RECURSIVE RecordsOf(_)
\* the records with at most n leaves put in
RecordsOf(n) ==
    IF n = 0 THEN {<<>>}
    ELSE LET fewer == RecordsOf(n - 1)
         IN  fewer \cup {SetPath(r, p, v) : r \in fewer, p \in Paths, v \in Leaves}
FlatInputs == {Obj(r) : r \in RecordsOf(MaxLeaves)}

VARIABLES
    record,      \* the argument obj of flattenObject
    calls,       \* how many of the two calls have returned
    flat,        \* flattenObject(record)
    reflat       \* flattenObject(flattenObject(record))

flatVars == <<record, calls, flat, reflat>>

InitFlat(inputs) ==
    /\ record \in inputs
    /\ calls = 0
    /\ flat = <<>>
    /\ reflat = <<>>

\* flattenObject(record)
Flatten ==
    /\ calls = 0
    /\ flat' = flattenObject(record, <<>>, <<>>)
    /\ calls' = 1
    /\ UNCHANGED <<record, reflat>>

\* flattenObject(flat)
FlattenAgain ==
    /\ calls = 1
    /\ reflat' = flattenObject(Obj(flat), <<>>, <<>>)
    /\ calls' = 2
    /\ UNCHANGED <<record, flat>>

(***************************************************************************)
(* Specifications                                                           *)
(***************************************************************************)
vars == <<stageVars, driverVars, flatVars>>

\* Spec: one json2csv() stage fed a document in chunks of any sizes
Init == InitStages(Documents) /\ InitDriver /\ InitFlat({Obj(<<>>)})
Next ==
    \/ Transform(1) /\ UNCHANGED <<driverVars, flatVars>>
    \/ FlushParse(1) /\ UNCHANGED <<driverVars, flatVars>>
    \/ FlushForEach(1) /\ UNCHANGED <<driverVars, flatVars>>
    \/ FlushPushHeader(1) /\ UNCHANGED <<driverVars, flatVars>>
    \/ FlushPushRow(1) /\ UNCHANGED <<driverVars, flatVars>>
    \/ FlushCallback(1) /\ UNCHANGED <<driverVars, flatVars>>
Spec == Init /\ [][Next]_vars

\* SpecPair: two json2csv() stages fed the same document, each in its own chunks
PairDocuments ==
    {ListDocument(<<RecAccent>>), ListDocument(<<RecA, RecB>>), DocResultsString,
     DocNoResults, BadTrailingComma}
InitPair == InitStages(PairDocuments) /\ InitDriver /\ InitFlat({Obj(<<>>)})
NextPair ==
    \E i \in Stages :
        \/ Transform(i) /\ UNCHANGED <<driverVars, flatVars>>
        \/ FlushParse(i) /\ UNCHANGED <<driverVars, flatVars>>
        \/ FlushForEach(i) /\ UNCHANGED <<driverVars, flatVars>>
        \/ FlushPushHeader(i) /\ UNCHANGED <<driverVars, flatVars>>
        \/ FlushPushRow(i) /\ UNCHANGED <<driverVars, flatVars>>
        \/ FlushCallback(i) /\ UNCHANGED <<driverVars, flatVars>>
SpecPair == InitPair /\ [][NextPair]_vars

\* SpecDriver: main, with stage 1 as the json2csv() of its pipeline
DriverDocuments ==
    {ListDocument(<<RecA, RecB>>), ListDocument(<<>>), DocNoResults,
     DocResultsString, BadTrailingComma}
InitDriverSpec == InitStages(DriverDocuments) /\ InitDriver /\ InitFlat({Obj(<<>>)})
NextDriver ==
    \/ GetRejects /\ UNCHANGED flatVars
    \/ MkdirThrows /\ UNCHANGED flatVars
    \/ GetResolves /\ UNCHANGED flatVars
    \/ PipeChunk /\ UNCHANGED flatVars
    \/ PipeFlushParse /\ UNCHANGED flatVars
    \/ PipeFlushForEach /\ UNCHANGED flatVars
    \/ PipeFlushPushHeader /\ UNCHANGED flatVars
    \/ PipeFlushPushRow /\ UNCHANGED flatVars
    \/ PipeFlushCallback /\ UNCHANGED flatVars
    \/ SinkWrite /\ UNCHANGED flatVars
    \/ SinkFinish /\ UNCHANGED flatVars
    \/ SourceFails /\ UNCHANGED flatVars
    \/ SinkFails /\ UNCHANGED flatVars
    \/ LogSuccess /\ UNCHANGED flatVars
    \/ LogError /\ UNCHANGED flatVars
SpecDriver == InitDriverSpec /\ [][NextDriver]_vars

\* SpecFlat: flattenObject applied to a record, then to its own result
InitFlatSpec == InitStages({<<>>}) /\ InitDriver /\ InitFlat(FlatInputs)
NextFlat ==
    \/ Flatten /\ UNCHANGED <<stageVars, driverVars>>
    \/ FlattenAgain /\ UNCHANGED <<stageVars, driverVars>>
SpecFlat == InitFlatSpec /\ [][NextFlat]_vars

(***************************************************************************)
(* Claims about json2csv, checked under Spec on stage 1                     *)
(***************************************************************************)
\* the flush of stage 1 is over
FlushOver == phase[1] \in {"done", "errored"}
\* results is a list with at least one record
HasRecords == IsArray(results[1]) /\ Len(results[1].arr) > 0
\* the flat record of the k-th record of results
FlatOf(k) == flattenObject(results[1].arr[k], <<>>, <<>>)
\* the header row for the header set hs, and the data row of flat record fr
HeaderRow(hs) == JoinChars(hs, <<",">>) \o <<"\n">>
DataRow(fr, hs) == Join([h \in 1..Len(hs) |-> CellValue(fr, hs[h])]) \o <<"\n">>

C2_CellIsFlatValue ==
    \A k \in 1..Len(cells[1]) : \A h \in 1..Len(headers[1]) :
        JoinElement(cells[1][k][h]) =
            IF HasKey(rows[1][k], headers[1][h])
            THEN JoinElement(Lookup(rows[1][k], headers[1][h]))
            ELSE <<>>

\* the keys of the flat records of all records of results
AllFlatKeys ==
    UNION {{FlatOf(k)[n].k : n \in 1..Len(FlatOf(k))} : k \in 1..Len(results[1].arr)}
\* the first record that has the key, and the key's place in its flat record
FirstRecord(key) ==
    CHOOSE k \in 1..Len(results[1].arr) :
        /\ HasKey(FlatOf(k), key)
        /\ \A j \in 1..(k - 1) : ~HasKey(FlatOf(j), key)
PlaceIn(key) == KeyIndex(FlatOf(FirstRecord(key)), key)
SeenBefore(key1, key2) ==
    \/ FirstRecord(key1) < FirstRecord(key2)
    \/ FirstRecord(key1) = FirstRecord(key2) /\ PlaceIn(key1) < PlaceIn(key2)
ScanOver == phase[1] \in {"pushHeader", "rowsLoop", "callback", "done"}

\* C3: for a non-empty list of records, once the scan of the records is over
\* the header set holds every flat-record key of every record exactly once,
\* in first-seen order (records in list order, keys in flat-record order);
\* nothing is emitted before the header set is complete; the header row is
\* that header set; every data row has exactly one cell per header key.
C3_HeaderSet ==
    /\ ScanOver /\ HasRecords =>
         /\ {headers[1][p] : p \in 1..Len(headers[1])} = AllFlatKeys
         /\ \A p, q \in 1..Len(headers[1]) :
              p < q => headers[1][p] # headers[1][q]
                       /\ SeenBefore(headers[1][p], headers[1][q])
    /\ pushed[1] # <<>> =>
         /\ ScanOver /\ HasRecords
         /\ pushed[1][1] = HeaderRow(headers[1])
    /\ \A k \in 1..Len(cells[1]) : Len(cells[1][k]) = Len(headers[1])

\* C3 witness: a finished flush of two records whose flat records share a
\* key, the second having a key the first has not
C3_Witness ==
    /\ phase[1] = "done"
    /\ HasRecords
    /\ Len(rows[1]) = 2
    /\ Len(headers[1]) > Len(rows[1][1])
    /\ Len(headers[1]) < Len(rows[1][1]) + Len(rows[1][2])

\* what JSON.parse makes of the buffered document, and its results member
Buffered == JsonParse(jsonBuffer[1])
BufferedResults == ResultsOf(Buffered.v)
\* the buffered document is valid JSON with no results list
NoResultsList == Buffered.ok /\ ~IsArray(BufferedResults)

NoListThrows ==
    \/ IsUndefined(BufferedResults)
    \/ IsNull(BufferedResults)
    \/ IsStr(BufferedResults) /\ BufferedResults.str # <<>>
    \/ /\ IsPlainObject(BufferedResults)
       /\ GreaterThanZero(Lookup(BufferedResults.obj, <<"l", "e", "n", "g", "t", "h">>))

Malformed == ~JsonParse(ToStringUtf8(document)).ok

\* C5: when the document as a whole is not valid JSON (cut short, invalid,
\* empty), json2csv never emits a chunk, and the flush signals a SyntaxError
\* instead of completing.
C5_MalformedFails ==
    Malformed =>
        /\ pushed[1] = <<>>
        /\ phase[1] \in {"accumulating", "errored"}
        /\ FlushOver => error[1] = "SyntaxError"

\* C5 witness: a SyntaxError signalled for a non-empty document that arrived
\* with a character cut in two
C5_Witness ==
    /\ Malformed
    /\ phase[1] = "errored"
    /\ error[1] = "SyntaxError"
    /\ jsonBuffer[1] # <<>>
    /\ jsonBuffer[1] # ToStringUtf8(document)

\* C6: when the document is {"results":[]}, json2csv never emits a chunk,
\* neither header nor data row, and the flush completes with no error.
C6_EmptyResults ==
    document = ListDocument(<<>>) =>
        /\ pushed[1] = <<>>
        /\ error[1] = "none"
        /\ phase[1] \in {"accumulating", "callback", "done"}

\* C6 witness: the flush of {"results":[]} has completed
C6_Witness ==
    /\ document = ListDocument(<<>>)
    /\ phase[1] = "done"
    /\ results[1] = Arr(<<>>)

(***************************************************************************)
(* Claim about chunking, checked under SpecPair on stages 1 and 2           *)
(***************************************************************************)
\* C7: two runs of json2csv over the same document, each with its own
\* chunking, end with the same outcome: both complete having emitted the
\* same chunks, or both signal an error.
C7_ChunkingIndependent ==
    (\A i \in Stages : phase[i] \in {"done", "errored"}) =>
        /\ phase[1] = phase[2]
        /\ pushed[1] = pushed[2]

(***************************************************************************)
(* Claims about flattenObject, checked under SpecFlat                       *)
(***************************************************************************)
RECURSIVE LeafEntries(_, _)
\* the leaves of a record (every value that is no object), each with the
\* keys from the record down to it
LeafEntries(props, above) ==
    UNION {IF IsPlainObject(props[n].v)
           THEN LeafEntries(props[n].v.obj, Append(above, props[n].k))
           ELSE {[path |-> Append(above, props[n].k), v |-> props[n].v]}
           : n \in 1..Len(props)}
Dotted(path) == JoinChars(path, <<".">>)
EntriesOf(props) == {[k |-> props[n].k, v |-> props[n].v] : n \in 1..Len(props)}

\* C8: the flat record has, for each leaf of the record (a scalar, null or
\* an array, kept whole) under the keys k1..kn, the entry "k1.k2...kn" ->
\* that leaf, each key once, and no other entry.
C8_FlatIsLeafPaths ==
    calls >= 1 =>
        /\ EntriesOf(flat) =
               {[k |-> Dotted(e.path), v |-> e.v] : e \in LeafEntries(record.obj, <<>>)}
        /\ \A m, n \in 1..Len(flat) : m # n => flat[m].k # flat[n].k

\* C14: every leaf of the record (a scalar, null or an array) under the keys
\* k1..kn is the value of the flat record's key "k1.k2...kn", and the flat
\* record has as many keys as the record has leaves: no two leaves share a
\* key and none is dropped or overwritten.
C14_Lossless ==
    calls >= 1 =>
        /\ \A e \in LeafEntries(record.obj, <<>>) :
               /\ HasKey(flat, Dotted(e.path))
               /\ Lookup(flat, Dotted(e.path)) = e.v
        /\ Len(flat) = Cardinality(LeafEntries(record.obj, <<>>))

NoNestedObject(props) == \A n \in 1..Len(props) : ~IsPlainObject(props[n].v)

StageFailed == failed \in {"source", "json2csv", "sink"}
\* the error of the stage that failed first
FirstError ==
    IF failed = "source" THEN "TransportError"
    ELSE IF failed = "sink" THEN "SinkError"
    ELSE error[1]
AllTerminated ==
    /\ srcState \in {"ended", "errored", "destroyed"}
    /\ phase[1] \in {"done", "errored", "destroyed"}
    /\ sinkState \in {"finished", "errored", "destroyed"}
Reported(msg) == \E n \in 1..Len(log) : log[n].msg = msg

\* C9: once a stage of the pipeline has failed, the try block has thrown the
\* first error, every stage is ended or destroyed, "File has been written"
\* is not reported, and when main ends the error is what was reported;
\* "File has been written" is reported only when the file stream has
\* finished with every emitted chunk written and nothing has failed.
C9_FailureHandling ==
    /\ StageFailed =>
         /\ pc \in {"rejected", "end"}
         /\ rejection = FirstError
         /\ AllTerminated
         /\ ~Reported("File has been written")
    /\ StageFailed /\ pc = "end" => log = <<Line("Unexpected error:", FirstError)>>
    /\ Reported("File has been written") =>
         /\ failed = "none"
         /\ sinkState = "finished"
         /\ phase[1] = "done"
         /\ written = pushed[1]

\* C9 witness: the file stream failed after a chunk was written and before
\* the last one was, and main has reported the error
C9_Witness ==
    /\ pc = "end"
    /\ failed = "sink"
    /\ written # <<>>
    /\ Len(written) < Len(pushed[1])
    /\ Reported("Unexpected error:")

(***************************************************************************)
(* Claims about the order of receipt, parse and emission                    *)
(***************************************************************************)
\* C11: JSON.parse of the buffer is never called while chunks are still
\* arriving and never more than once; once it has been called every byte of
\* the document has been received; nothing is emitted before it has been
\* called; and a stage that is in or past its flush has called it exactly once.
C11_ParseOnceAfterLastChunk ==
    /\ parses[1] <= 1
    /\ phase[1] = "accumulating" => parses[1] = 0 /\ pushed[1] = <<>>
    /\ parses[1] >= 1 => sent[1] = Len(document)
    /\ pushed[1] # <<>> => parses[1] = 1
    /\ InFlush(1) \/ FlushOver => parses[1] = 1

\* C11 witness: the whole document has been received and parsed, and the
\* header and a row have been emitted since
C11_Witness ==
    /\ phase[1] = "done"
    /\ parses[1] = 1
    /\ sent[1] = Len(document)
    /\ Len(pushed[1]) >= 2

\* the text of the chunk that stage i receives in this step: the bytes of the
\* document from where the stage was to where it is
ChunkText(i) == ToStringUtf8(SubSeq(document, sent[i] + 1, sent'[i]))

\* C12: the buffer of every json2csv instance starts empty; a step in which
\* the instance receives a chunk appends the text of that chunk to the end of
\* its buffer, and happens in the accumulating phase alone; every other step,
\* a chunk received by another instance included, leaves its buffer as it is.
C12_BufferIsConcatenation ==
    /\ \A i \in Stages : jsonBuffer[i] = <<>> /\ sent[i] = 0
    /\ [][\A i \in Stages :
            IF sent'[i] # sent[i]
            THEN /\ phase[i] = "accumulating"
                 /\ sent'[i] > sent[i]
                 /\ jsonBuffer'[i] = jsonBuffer[i] \o ChunkText(i)
            ELSE jsonBuffer'[i] = jsonBuffer[i]]_vars

\* C12 witness: two instances, both still accumulating, have received
\* different parts of the document and hold different buffers
C12_Witness ==
    /\ phase[1] = "accumulating" /\ phase[2] = "accumulating"
    /\ jsonBuffer[1] # <<>> /\ jsonBuffer[2] # <<>>
    /\ sent[1] # sent[2]
    /\ jsonBuffer[1] # jsonBuffer[2]

C15_SinkOnlyAfterResponse ==
    /\ dirCreated \/ sinkState # "none" \/ written # <<>> =>
         /\ srcState # "none"
         /\ failed # "request"
    /\ failed = "request" =>
         /\ pc \in {"rejected", "end"}
         /\ rejection = "TransportError"
         /\ srcState = "none"
         /\ ~dirCreated
         /\ sinkState = "none"
         /\ written = <<>>
         /\ ~Reported("File has been written")
    /\ failed = "request" /\ pc = "end" =>
         log = <<Line("Unexpected error:", "TransportError")>>

\* C15 witness: client.get rejected and main has reported the error and ended
C15_Witness ==
    /\ pc = "end"
    /\ failed = "request"
    /\ Reported("Unexpected error:")
    /\ sinkState = "none"

====
